---- MODULE Spec2Model ----
(***************************************************************************)
(* State-machine model of scripts/config_backup.py (loadDevices,           *)
(* backup_config, main) and scripts/ping_ips.py (ping_host, main).         *)
(*                                                                         *)
(* Each program is one sequential process; an action is one statement (or  *)
(* one straight-line block) of the source, and the outcomes of the calls   *)
(* into the environment (file system, netmiko, subprocess, the wall clock) *)
(* are nondeterministic choices.  Spec is the backup program, SpecPing the *)
(* reachability prober.                                                    *)
(***************************************************************************)
EXTENDS Naturals, Sequences, FiniteSets

VARIABLES
    doc,          \* the inventory document found at args.devices
    pc,           \* position of main / backup_config
    devices,      \* value returned by loadDevices: [none, list]
    idx,          \* 1-based position of the for loop of main
    clock,        \* wall clock, in seconds (datetime.now() granularity used)
    files,        \* backup_dir: artifact path -> content (or NoFile)
    sessionOpen,  \* a netmiko session is open
    config,       \* local `config` of backup_config
    backup_file,  \* local `backup_file` of backup_config
    exc,          \* exception being handled in backup_config
    result,       \* value returned by the last backup_config call
    exit,         \* how the process ended
    attempts,     \* history: inventory positions backup_config was called for
    results,      \* history: value returned by each backup_config call
    warnings,     \* history: positions for which main logged "Backup failed"
    connects,     \* history: positions for which ConnectHandler was called
    connected,    \* history: the current attempt's connect succeeded
    closes,       \* history: number of session closes in the current attempt
    enableFailed, \* history: enable() raised in the current attempt
    sent,         \* history: send_command was called in the current attempt
    wrote,        \* history: path and content of each successful attempt's artifact
    connectFailed,\* history: positions whose connect step failed
    snapshot,     \* history: backup_dir as it was when the attempt started
    pdoc,         \* ping_ips: the document found at args.file
    hosts,        \* ping_ips: the loaded `devices` list
    ppc,          \* ping_ips: position of main
    pidx,         \* ping_ips: position of the for loop
    pexit,        \* ping_ips: how the process ended
    probes,       \* ping_ips history: hosts handed to ping_host, in order
    preturns      \* ping_ips history: values returned by ping_host

bvars == <<doc, pc, devices, idx, clock, files, sessionOpen, config, backup_file,
           exc, result, exit, attempts, results, warnings, connects, connected,
           closes, enableFailed, sent, wrote, connectFailed, snapshot>>
pvars == <<pdoc, hosts, ppc, pidx, pexit, probes, preturns>>
vars == <<bvars, pvars>>

-----------------------------------------------------------------------------
(* Bounds of the model. *)

\* longest inventory list explored
MaxDevices == 3
\* last second the wall clock reaches
MaxClock == 1
\* longest host list explored by the prober
MaxHosts == 3

-----------------------------------------------------------------------------
(* config_backup.py: data *)

ENABLE_SESSION_LOGGING == TRUE

Names == {"R1", "R2"}
Keys == {"name", "host", "username", "password", "device_type"}
ConnKeys == {"host", "username", "password", "device_type"}

\* The keys an explored entry may lack: the one read first (line 56), the first
\* and the last of the parameter dictionary (lines 64-67).
MissingKeys == {"name", "host", "device_type"}

\* A device entry of the inventory: the keys the mapping holds and its name
\* (read only when "name" is among the keys).
DeviceEntries ==
    {[name |-> n, present |-> Keys] : n \in Names}
    \cup {[name |-> "R1", present |-> Keys \ {k}] : k \in MissingKeys}

RECURSIVE SeqsUpTo(_, _)
SeqsUpTo(S, n) ==
    IF n = 0 THEN {<<>>}
    ELSE LET shorter == SeqsUpTo(S, n - 1)
         IN shorter \cup {Append(s, x) : s \in {t \in shorter : Len(t) = n - 1}, x \in S}

DocKinds == {"notfound", "malformed", "empty", "nokey", "null", "list"}

\* The documents args.devices may name.
Documents ==
    {[kind |-> k, devices |-> <<>>] : k \in DocKinds \ {"list"}}
    \cup {[kind |-> "list", devices |-> s] : s \in SeqsUpTo(DeviceEntries, MaxDevices)}

None == [none |-> TRUE, list |-> <<>>]
Some(s) == [none |-> FALSE, list |-> s]

\* Outputs of "show running-config"
Outputs == {"cfgA", "cfgB"}
NoFile == "<absent>"
Truncated == ""
Paths == Names \X (0 .. MaxClock)
NoPath == <<"R1", 0>>

ConnectErrors == {"timeout", "auth", "netmiko", "other"}
NoExc == "none"

-----------------------------------------------------------------------------
(* config_backup.py: loadDevices *)

\* open() raises FileNotFoundError; safe_load raises YAMLError; safe_load of
\* an empty document is None and None.get raises AttributeError, caught by
\* `except Exception`; .get("devices", []) is [] without the key and the
\* stored value (None for `devices:` with no value) with it.
loadDevices(d) ==
    CASE d.kind = "notfound" -> None
      [] d.kind = "malformed" -> None
      [] d.kind = "empty" -> None
      [] d.kind = "nokey" -> Some(<<>>)
      [] d.kind = "null" -> None
      [] OTHER -> Some(d.devices)

-----------------------------------------------------------------------------
(* config_backup.py: main and backup_config *)

device == devices.list[idx]

\* Process exit status: sys.exit(1) and an uncaught exception (main() is
\* called at module level with no handler) both end the process with 1.
ExitStatus == IF exit \in {"exit1", "crash"} THEN 1 ELSE 0

\* Lines 49-78 read device['name'] (session logging is on), then
\* device['host'], ['username'], ['password'], ['device_type'], all before
\* the try statement of line 80: a missing key is a KeyError no handler of
\* backup_config or main catches.
ParamsRaise(dev) ==
    \/ ENABLE_SESSION_LOGGING /\ "name" \notin dev.present
    \/ ~(ConnKeys \subseteq dev.present)

\* A fail-fast loop: the first failed backup ends the iteration.
NextIndexFailFast(i, ok, n) == IF ok THEN i + 1 ELSE n + 1

\* The for statement of main: the next entry, whatever backup_config returned.
NextIndex(i, ok, n) == i + 1

\* A disconnect written as the last statement of the body instead of a with
\* statement: skipped when the body raises.
ExitClosesNormalOnly(raised) == ~raised

\* The with statement of line 83: __exit__ disconnects however the body is
\* left (raised = the body raised).
ExitCloses(raised) == TRUE

\* enable() wrapped in a try statement that logs and goes on to send_command.
AfterEnableRaiseContinue == "send"

\* enable() is called with no handler of its own (line 84): when it raises,
\* the body of the with statement is left and an except clause of lines
\* 94-113 runs.
AfterEnableRaise == "handler"

LeaveWith(raised) ==
    /\ sessionOpen' = IF ExitCloses(raised) THEN FALSE ELSE sessionOpen
    /\ closes' = IF ExitCloses(raised) THEN closes + 1 ELSE closes

BackupStart ==
    /\ devices = None
    /\ idx = 1
    /\ clock = 0
    /\ files = [p \in Paths |-> NoFile]
    /\ sessionOpen = FALSE
    /\ config = Truncated
    /\ backup_file = NoPath
    /\ exc = NoExc
    /\ result = FALSE
    /\ exit = "running"
    /\ attempts = <<>>
    /\ results = <<>>
    /\ warnings = <<>>
    /\ connects = <<>>
    /\ connected = FALSE
    /\ closes = 0
    /\ enableFailed = FALSE
    /\ sent = FALSE
    /\ wrote = <<>>
    /\ connectFailed = {}
    /\ snapshot = [p \in Paths |-> NoFile]

PingStart ==
    /\ hosts = <<>>
    /\ pidx = 1
    /\ pexit = "running"
    /\ probes = <<>>
    /\ preturns = <<>>

\* config_backup.py is started on some inventory document
Init ==
    /\ doc \in Documents
    /\ pc = "start"
    /\ BackupStart
    /\ pdoc = [kind |-> "nokey", devices |-> <<>>]
    /\ ppc = "idle"
    /\ PingStart

\* datetime.datetime.now() advances between any two statements.
Tick ==
    /\ exit = "running"
    /\ clock < MaxClock
    /\ clock' = clock + 1
    /\ UNCHANGED <<pvars, doc, pc, devices, idx, files, sessionOpen, config, backup_file,
                   exc, result, exit, attempts, results, warnings, connects,
                   connected, closes, enableFailed, sent, wrote, connectFailed,
                   snapshot>>

\* main, lines 161-164
Load ==
    /\ pc = "start"
    /\ devices' = loadDevices(doc)
    /\ IF devices'.none
       THEN pc' = "done" /\ exit' = "exit1"
       ELSE pc' = "loop" /\ exit' = exit
    /\ UNCHANGED <<pvars, doc, idx, clock, files, sessionOpen, config, backup_file, exc,
                   result, attempts, results, warnings, connects, connected,
                   closes, enableFailed, sent, wrote, connectFailed, snapshot>>

\* main, lines 166-167: the next device is handed to backup_config
Call ==
    /\ pc = "loop"
    /\ idx <= Len(devices.list)
    /\ pc' = "params"
    /\ attempts' = Append(attempts, idx)
    /\ snapshot' = files
    /\ connected' = FALSE
    /\ closes' = 0
    /\ enableFailed' = FALSE
    /\ sent' = FALSE
    /\ config' = Truncated
    /\ backup_file' = NoPath
    /\ exc' = NoExc
    /\ UNCHANGED <<pvars, doc, devices, idx, clock, files, sessionOpen, result, exit,
                   results, warnings, connects, wrote, connectFailed>>

\* main, line 170 and the normal end of the process
Finish ==
    /\ pc = "loop"
    /\ idx > Len(devices.list)
    /\ pc' = "done"
    /\ exit' = "exit0"
    /\ UNCHANGED <<pvars, doc, devices, idx, clock, files, sessionOpen, config,
                   backup_file, exc, result, attempts, results, warnings,
                   connects, connected, closes, enableFailed, sent, wrote,
                   connectFailed, snapshot>>

\* backup_config, lines 49-78
BuildParams ==
    /\ pc = "params"
    /\ IF ParamsRaise(device)
       THEN pc' = "done" /\ exit' = "crash"
       ELSE pc' = "connect" /\ exit' = exit
    /\ UNCHANGED <<pvars, doc, devices, idx, clock, files, sessionOpen, config,
                   backup_file, exc, result, attempts, results, warnings,
                   connects, connected, closes, enableFailed, sent, wrote,
                   connectFailed, snapshot>>

\* backup_config, line 83: ConnectHandler returns a session
ConnectOk ==
    /\ pc = "connect"
    /\ connects' = Append(connects, idx)
    /\ sessionOpen' = TRUE
    /\ connected' = TRUE
    /\ pc' = "enable"
    /\ UNCHANGED <<pvars, doc, devices, idx, clock, files, config, backup_file, exc,
                   result, exit, attempts, results, warnings, closes,
                   enableFailed, sent, wrote, connectFailed, snapshot>>

\* backup_config, line 83: ConnectHandler raises; no session object exists and
\* the with statement is never entered
ConnectFail ==
    /\ pc = "connect"
    /\ \E e \in ConnectErrors : exc' = e
    /\ connects' = Append(connects, idx)
    /\ connectFailed' = connectFailed \cup {idx}
    /\ pc' = "handler"
    /\ UNCHANGED <<pvars, doc, devices, idx, clock, files, sessionOpen, config,
                   backup_file, result, exit, attempts, results, warnings,
                   connected, closes, enableFailed, sent, wrote, snapshot>>

\* backup_config, line 84
EnableOk ==
    /\ pc = "enable"
    /\ pc' = "send"
    /\ UNCHANGED <<pvars, doc, devices, idx, clock, files, sessionOpen, config,
                   backup_file, exc, result, exit, attempts, results, warnings,
                   connects, connected, closes, enableFailed, sent, wrote,
                   connectFailed, snapshot>>

EnableRaise ==
    /\ pc = "enable"
    /\ enableFailed' = TRUE
    /\ IF AfterEnableRaise = "handler"
       THEN /\ \E e \in {"netmiko", "other"} : exc' = e
            /\ LeaveWith(TRUE)
            /\ pc' = "handler"
       ELSE /\ exc' = exc
            /\ UNCHANGED <<sessionOpen, closes>>
            /\ pc' = AfterEnableRaise
    /\ UNCHANGED <<pvars, doc, devices, idx, clock, files, config, backup_file, result,
                   exit, attempts, results, warnings, connects, connected, sent,
                   wrote, connectFailed, snapshot>>

\* backup_config, line 85
SendOk ==
    /\ pc = "send"
    /\ sent' = TRUE
    /\ \E o \in Outputs : config' = o
    /\ pc' = "stamp"
    /\ UNCHANGED <<pvars, doc, devices, idx, clock, files, sessionOpen, backup_file, exc,
                   result, exit, attempts, results, warnings, connects, connected,
                   closes, enableFailed, wrote, connectFailed, snapshot>>

SendRaise ==
    /\ pc = "send"
    /\ sent' = TRUE
    /\ \E e \in {"netmiko", "other"} : exc' = e
    /\ LeaveWith(TRUE)
    /\ pc' = "handler"
    /\ UNCHANGED <<pvars, doc, devices, idx, clock, files, config, backup_file, result,
                   exit, attempts, results, warnings, connects, connected,
                   enableFailed, wrote, connectFailed, snapshot>>

\* backup_config, lines 86-89
Stamp ==
    /\ pc = "stamp"
    /\ backup_file' = <<device.name, clock>>
    /\ pc' = "open"
    /\ UNCHANGED <<pvars, doc, devices, idx, clock, files, sessionOpen, config, exc,
                   result, exit, attempts, results, warnings, connects, connected,
                   closes, enableFailed, sent, wrote, connectFailed, snapshot>>

\* backup_config, line 90: mode "w" creates the file or truncates it
OpenOk ==
    /\ pc = "open"
    /\ files' = [files EXCEPT ![backup_file] = Truncated]
    /\ pc' = "write"
    /\ UNCHANGED <<pvars, doc, devices, idx, clock, sessionOpen, config, backup_file, exc,
                   result, exit, attempts, results, warnings, connects, connected,
                   closes, enableFailed, sent, wrote, connectFailed, snapshot>>

OpenRaise ==
    /\ pc = "open"
    /\ exc' = "other"
    /\ LeaveWith(TRUE)
    /\ pc' = "handler"
    /\ UNCHANGED <<pvars, doc, devices, idx, clock, files, config, backup_file, result,
                   exit, attempts, results, warnings, connects, connected,
                   enableFailed, sent, wrote, connectFailed, snapshot>>

\* backup_config, line 91 and the close of the file
WriteOk ==
    /\ pc = "write"
    /\ files' = [files EXCEPT ![backup_file] = config]
    /\ pc' = "withexit"
    /\ UNCHANGED <<pvars, doc, devices, idx, clock, sessionOpen, config, backup_file, exc,
                   result, exit, attempts, results, warnings, connects, connected,
                   closes, enableFailed, sent, wrote, connectFailed, snapshot>>

\* the write (or the flush at close) raises OSError: the opened file stays
WriteRaise ==
    /\ pc = "write"
    /\ exc' = "other"
    /\ LeaveWith(TRUE)
    /\ pc' = "handler"
    /\ UNCHANGED <<pvars, doc, devices, idx, clock, files, config, backup_file, result,
                   exit, attempts, results, warnings, connects, connected,
                   enableFailed, sent, wrote, connectFailed, snapshot>>

\* backup_config, lines 92-93: the with body ends, return True
ReturnTrue ==
    /\ pc = "withexit"
    /\ LeaveWith(FALSE)
    /\ result' = TRUE
    /\ wrote' = Append(wrote, [path |-> backup_file, content |-> config])
    /\ pc' = "returned"
    /\ UNCHANGED <<pvars, doc, devices, idx, clock, files, config, backup_file, exc, exit,
                   attempts, results, warnings, connects, connected, enableFailed,
                   sent, connectFailed, snapshot>>

\* backup_config, lines 94-113: every except clause logs and returns False
ReturnFalse ==
    /\ pc = "handler"
    /\ result' = FALSE
    /\ pc' = "returned"
    /\ UNCHANGED <<pvars, doc, devices, idx, clock, files, sessionOpen, config,
                   backup_file, exc, exit, attempts, results, warnings, connects,
                   connected, closes, enableFailed, sent, wrote, connectFailed,
                   snapshot>>

\* main, lines 167-169
Returned ==
    /\ pc = "returned"
    /\ results' = Append(results, result)
    /\ warnings' = IF result THEN warnings ELSE Append(warnings, idx)
    /\ idx' = NextIndex(idx, result, Len(devices.list))
    /\ pc' = "loop"
    /\ UNCHANGED <<pvars, doc, devices, clock, files, sessionOpen, config, backup_file,
                   exc, result, exit, attempts, connects, connected, closes,
                   enableFailed, sent, wrote, connectFailed, snapshot>>

Next ==
    \/ Tick \/ Load \/ Call \/ Finish \/ BuildParams
    \/ ConnectOk \/ ConnectFail \/ EnableOk \/ EnableRaise
    \/ SendOk \/ SendRaise \/ Stamp \/ OpenOk \/ OpenRaise
    \/ WriteOk \/ WriteRaise \/ ReturnTrue \/ ReturnFalse \/ Returned

Spec == Init /\ [][Next]_vars

-----------------------------------------------------------------------------
(* Properties of config_backup.py, checked under Spec *)

Range(s) == {s[i] : i \in DOMAIN s}
Loaded == pc # "start" /\ ~devices.none
LoadFailed == pc # "start" /\ devices.none
Failures == {i \in DOMAIN results : ~results[i]}

\* C1: no exception escapes the per-device step of main's loop, whatever the
\* entry holds: each backup_config call returns True or False, each False is
\* logged as a warning for that device, and the loop is at the next device.
C1_NoExceptionEscapes ==
    /\ exit # "crash"
    /\ pc = "loop" =>
         /\ Len(results) = Len(attempts)
         /\ Range(warnings) = Failures
         /\ idx = Len(attempts) + 1

\* C2: an inventory of N entries gets exactly N backup attempts, one per
\* entry, in inventory order and none twice, by the time the run has ended.
C2_ExactlyNAttempts ==
    /\ attempts = [i \in 1 .. Len(attempts) |-> i]
    /\ (Loaded /\ exit # "running") => Len(attempts) = Len(devices.list)

\* C3: when the connect step of device i fails, backup_dir is, for the rest
\* of that attempt, exactly as it was when the attempt began (every artifact
\* written earlier is there, unchanged), the run does not end in that attempt,
\* the loop then stands at device i+1, and a run that has ended has called
\* backup_config for device i+1.  ("Attempted" is the call of backup_config.)
C3_ConnectFailureIsolated ==
    \A i \in connectFailed :
        /\ idx = i => (files = snapshot /\ exit = "running")
        /\ (idx > i /\ i < Len(devices.list)) =>
             \/ (i + 1) \in Range(attempts)
             \/ pc = "loop" /\ idx = i + 1 /\ exit = "running"
        /\ (exit # "running" /\ i < Len(devices.list)) => (i + 1) \in Range(attempts)

\* C3 witness: the connect of a device after the first failed, an artifact
\* written earlier is in backup_dir, and the next device has been attempted.
C3_Witness ==
    \E i \in connectFailed :
        /\ i > 1
        /\ (i + 1) \in Range(attempts)
        /\ \E k \in DOMAIN wrote : files[wrote[k].path] = wrote[k].content

\* C4 (as stated): every backup attempt that returns has closed the session
\* exactly once, a failed connect included, and leaves no session open.
C4_OneClosePerAttempt ==
    pc = "returned" => (closes = 1 /\ ~sessionOpen)

\* C4 (amended): an attempt closes the session exactly once when its connect
\* succeeded, however the body of the with statement ended, and never when
\* the connect failed or was not reached; no session is open once
\* backup_config has returned or raised.
C4_CloseIffConnected ==
    /\ closes <= 1
    /\ sessionOpen => (connected /\ closes = 0)
    /\ pc \in {"handler", "returned", "loop", "done"} =>
         /\ ~sessionOpen
         /\ closes = IF connected THEN 1 ELSE 0

\* C4 witness: an attempt that connected and then failed has returned False
\* with its session closed once.
C4_Witness ==
    pc = "returned" /\ connected /\ ~result /\ closes = 1 /\ ~sessionOpen

\* C5: a failed load (loadDevices returns None) ends the process with exit
\* code 1 before any backup attempt or connection; after a successful load
\* the process never ends with exit code 1.
C5_ExitOneIffLoadFails ==
    /\ LoadFailed => (exit = "exit1" /\ attempts = <<>> /\ connects = <<>>)
    /\ Loaded => (exit = "running" \/ ExitStatus # 1)

\* C6: a document without a top-level `devices` key, the empty document
\* included, loads as an empty list: no backup attempt and no exit code 1.
C6_NoDevicesKeyIsEmpty ==
    (doc.kind \in {"nokey", "empty"} /\ pc # "start") =>
        /\ ~devices.none
        /\ devices.list = <<>>
        /\ attempts = <<>>
        /\ exit # "exit1"

\* C7 (as stated): when enable fails after a successful connect, the attempt
\* goes on: the command is sent and its output is in the device's artifact
\* when backup_config returns.
C7_EnableFailureContinues ==
    (enableFailed /\ pc = "returned") =>
        /\ sent
        /\ config \in Outputs
        /\ files[backup_file] = config

\* C7 (amended): when enable fails after a successful connect, the attempt is
\* aborted: send_command is never called, backup_dir is left as it was, the
\* session is closed once, backup_config returns False, and main logs the
\* warning and moves to the next device.
C7_EnableFailureAborts ==
    enableFailed =>
        /\ connected /\ ~sent
        /\ files = snapshot
        /\ ~sessionOpen /\ closes = 1
        /\ pc \in {"handler", "returned", "loop", "done"}
        /\ pc = "returned" => ~result
        /\ pc \in {"loop", "done"} =>
             /\ exit # "crash"
             /\ ~results[Len(results)]
             /\ warnings[Len(warnings)] = idx - 1

\* C7 witness: backup_config has returned from an attempt whose enable failed.
C7_Witness ==
    enableFailed /\ pc = "returned" /\ connected

\* C8: when backup_config returns True the artifact path holds exactly the
\* command output and nothing else of backup_dir changed; when it returns
\* False no file of backup_dir was created or modified.
C8_ArtifactIffSuccess ==
    pc = "returned" =>
        IF result
        THEN config \in Outputs /\ files = [snapshot EXCEPT ![backup_file] = config]
        ELSE files = snapshot

\* C10: the artifact of a successful attempt keeps its content for the rest
\* of the run, also with duplicate names and a clock that has not advanced.
C10_NeverOverwritten ==
    \A k \in DOMAIN wrote : files[wrote[k].path] = wrote[k].content

-----------------------------------------------------------------------------
(* ping_ips.py *)

PingTargets == {"10.0.0.1", "10.0.0.2"}
NoHost == "<none>"

\* An entry of the `devices` list as yaml.safe_load builds it:
\*   "map"     a mapping with a "host" key
\*   "nohost"  a mapping without one
\*   "null"    None (an empty list item)
\*   "str"     a plain string without the substring "host" ('10.0.0.9')
\*   "strhost" a plain string with it ('localhost')
HostEntries ==
    {[kind |-> "map", host |-> h] : h \in PingTargets}
    \cup {[kind |-> k, host |-> NoHost] : k \in {"nohost", "null", "str", "strhost"}}

PingDocuments ==
    {[kind |-> k, devices |-> <<>>] : k \in {"notfound", "malformed", "empty", "nokey"}}
    \cup {[kind |-> "list", devices |-> s] : s \in SeqsUpTo(HostEntries, MaxHosts)}

PingOutcomes == {"ok", "nonzero", "error"}

\* ping_host: True when `ping -c 1` exits 0; CalledProcessError (check=True)
\* and any other exception both return False.
ping_host(outcome) == outcome = "ok"

\* line 87, `"host" in device`: key membership for a mapping, substring test
\* for a string, TypeError for None
HostTestRaises(d) == d.kind = "null"
HostTest(d) == d.kind \in {"map", "strhost"}
\* line 88, device["host"]: a string is not subscriptable by a string
HostReadRaises(d) == d.kind = "strhost"

\* The entries of a list that carry a host, in list order.
RECURSIVE Carried(_)
Carried(s) ==
    IF s = <<>> THEN <<>>
    ELSE IF Head(s).kind = "map"
         THEN <<Head(s).host>> \o Carried(Tail(s))
         ELSE Carried(Tail(s))

\* ping_ips.py is started on some document
InitPing ==
    /\ pdoc \in PingDocuments
    /\ ppc = "start"
    /\ PingStart
    /\ doc = [kind |-> "nokey", devices |-> <<>>]
    /\ pc = "idle"
    /\ BackupStart

\* main, lines 69-84
PLoad ==
    /\ ppc = "start"
    /\ IF pdoc.kind \in {"notfound", "malformed", "empty"}
       THEN /\ ppc' = "done" /\ pexit' = "exit1" /\ hosts' = hosts
       ELSE IF pdoc.devices = <<>>
            THEN /\ ppc' = "done" /\ pexit' = "exit0" /\ hosts' = hosts
            ELSE /\ ppc' = "loop" /\ pexit' = pexit /\ hosts' = pdoc.devices
    /\ UNCHANGED <<bvars, pdoc, pidx, probes, preturns>>

\* main, lines 86-89: the entry carries a host and ping_host runs
PProbe ==
    /\ ppc = "loop"
    /\ pidx <= Len(hosts)
    /\ ~HostTestRaises(hosts[pidx])
    /\ HostTest(hosts[pidx])
    /\ ~HostReadRaises(hosts[pidx])
    /\ probes' = Append(probes, hosts[pidx].host)
    /\ \E o \in PingOutcomes : preturns' = Append(preturns, ping_host(o))
    /\ pidx' = pidx + 1
    /\ UNCHANGED <<bvars, pdoc, hosts, ppc, pexit>>

\* main, lines 90-91
PSkip ==
    /\ ppc = "loop"
    /\ pidx <= Len(hosts)
    /\ ~HostTestRaises(hosts[pidx])
    /\ ~HostTest(hosts[pidx])
    /\ pidx' = pidx + 1
    /\ UNCHANGED <<bvars, pdoc, hosts, ppc, pexit, probes, preturns>>

\* main, lines 87-88 raise TypeError outside any try statement
PRaise ==
    /\ ppc = "loop"
    /\ pidx <= Len(hosts)
    /\ \/ HostTestRaises(hosts[pidx])
       \/ HostTest(hosts[pidx]) /\ HostReadRaises(hosts[pidx])
    /\ ppc' = "done"
    /\ pexit' = "crash"
    /\ UNCHANGED <<bvars, pdoc, hosts, pidx, probes, preturns>>

\* the for loop of line 86 is exhausted
PFinish ==
    /\ ppc = "loop"
    /\ pidx > Len(hosts)
    /\ ppc' = "done"
    /\ pexit' = "exit0"
    /\ UNCHANGED <<bvars, pdoc, hosts, pidx, probes, preturns>>

NextPing == PLoad \/ PProbe \/ PSkip \/ PRaise \/ PFinish

SpecPing == InitPing /\ [][NextPing]_vars

-----------------------------------------------------------------------------
(* Property of ping_ips.py, checked under SpecPing *)

\* C9: every entry of the loaded list that carries a host is probed exactly
\* once, in list order, whatever the other probes returned and whatever the
\* other entries are: probes never leave list order, and a run that has ended
\* has probed them all.
C9_EveryHostProbedOnce ==
    /\ \E n \in 0 .. Len(Carried(hosts)) : probes = SubSeq(Carried(hosts), 1, n)
    /\ pexit # "running" => probes = Carried(hosts)

====
